---------------------------- MODULE Spec2Model ----------------------------
(***************************************************************************)
(* Model of the RTIC clock application (src/src/main.rs) and of the        *)
(* library functions ClockState::tick / ClockState::add_minute            *)
(* (src/src/clock.rs) and prepare_buffer (src/src/display.rs).             *)
(*                                                                         *)
(* Three interrupt-bound handlers run on one core:                         *)
(*   timer_tick      binds TIMER_IRQ_0,   priority 1                       *)
(*   button_press    binds IO_IRQ_BANK0,  priority 1                       *)
(*   update_display  software task dispatched from I2C0_IRQ, priority 1    *)
(*                   (no priority argument: the RTIC default), capacity 1  *)
(* Handlers of equal priority never preempt one another; interrupts that   *)
(* arrive while a handler runs stay pending until it returns.              *)
(*                                                                         *)
(* A u32 value is modelled as the set of its set bit positions (0 = least  *)
(* significant), a u8 value as a number in 0..255.                         *)
(***************************************************************************)
EXTENDS Integers, Sequences, FiniteSets, TLC

(***************************************************************************)
(* Bounds of the model.                                                    *)
(***************************************************************************)
\* number of alarm expiries explored
MaxTicks == 1
\* number of (human) button presses explored
MaxPresses == 1
\* number of contact-bounce falling edges explored
MaxBounces == 1
\* number of device writes that return an error explored
MaxFails == 1

(***************************************************************************)
(* Program constants.                                                      *)
(***************************************************************************)
\* queue capacity of the software task update_display (RTIC default)
Capacity == 1
\* interval given to alarm.schedule, in microseconds
TickIntervalUs == 1000000
\* number of chained display devices
NumDevices == 4

\* priorities given in the #[task] attributes
Priority(t) ==
    CASE t = "timer_tick" -> 1
      [] t = "button_press" -> 1
      [] t = "update_display" -> 1
      [] OTHER -> 0

\* mutant: the fields are five bits wide
U8_Narrow(x) == x % 32

\* a value stored in a u8
U8(x) == x % 256

\* a - b on usize (32 bits on this target). A difference below zero wraps to
\* 2^32 + (a - b); the tool's integers are 32 bits wide, so the wrapped value
\* is represented by 2^31 + (a - b), which like it is far above 32.
USizeSub(a, b) == IF a >= b THEN a - b ELSE (2147483647 + (a - b)) + 1

NoClock == [hours |-> 255, mins |-> 255, secs |-> 255]

ResetClock == [hours |-> 12, mins |-> 34, secs |-> 56]

InRange(c) ==
    /\ c.hours \in 0..23
    /\ c.mins \in 0..59
    /\ c.secs \in 0..59

AllClocks == [hours : 0..23, mins : 0..59, secs : 0..59]

\* The clock values prepare_buffer and the body of update_display are applied
\* to: every hour and minute, and seconds that put every digit at both
\* positions (with 56 of the reset value and the largest, 59).
ComposeSecs == {0, 6, 11, 17, 22, 28, 33, 39, 44, 55, 56, 59}

ComposeClocks == [hours : 0..23, mins : 0..59, secs : ComposeSecs]

\* Clock values the running program is started from in the model: the reset
\* value and the value it has 41103 ticks later, from which the seconds, the
\* minutes and the hours roll over within the bounds.
StartClocks ==
    { ResetClock,
      [hours |-> 23, mins |-> 59, secs |-> 59] }

(***************************************************************************)
(* src/src/clock.rs                                                        *)
(***************************************************************************)
add_minute(c) ==
    LET c1 == [c EXCEPT !.mins = U8(c.mins + 1)]
    IN  IF c1.mins >= 60
        THEN [c1 EXCEPT !.mins = 0, !.hours = U8(c1.hours + 1) % 24]
        ELSE c1

\* mutant: the seconds roll over without adding the minute
tick_NoCarry(c) ==
    LET c1 == [c EXCEPT !.secs = U8(c.secs + 1)]
    IN  IF c1.secs >= 60 THEN [c1 EXCEPT !.secs = 0] ELSE c1

tick(c) ==
    LET c1 == [c EXCEPT !.secs = U8(c.secs + 1)]
    IN  IF c1.secs >= 60 THEN add_minute([c1 EXCEPT !.secs = 0]) ELSE c1

(***************************************************************************)
(* src/src/main.rs: the statements of the two lock closures, one operator  *)
(* per statement.                                                          *)
(***************************************************************************)
\* mutant: a tick adds two seconds
TickIncSecs_Twice(c) == [c EXCEPT !.secs = U8(c.secs + 2)]

\* timer_tick, line 184
TickIncSecs(c) == [c EXCEPT !.secs = U8(c.secs + 1)]

\* mutant: seconds roll over without carrying into the minutes
TickRollSecs_NoCarry(c) ==
    IF c.secs >= 60 THEN [c EXCEPT !.secs = 0] ELSE c

\* timer_tick, lines 185-188
TickRollSecs(c) ==
    IF c.secs >= 60
    THEN [c EXCEPT !.secs = 0, !.mins = U8(c.mins + 1)]
    ELSE c

\* mutant: roll-over test off by one
TickRollMins_OffByOne(c) ==
    IF c.mins > 60
    THEN [c EXCEPT !.mins = 0, !.hours = U8(c.hours + 1) % 24]
    ELSE c

\* timer_tick, lines 189-192
TickRollMins(c) ==
    IF c.mins >= 60
    THEN [c EXCEPT !.mins = 0, !.hours = U8(c.hours + 1) % 24]
    ELSE c

\* the whole closure of timer_tick, lines 183-193
TimerTickUpdate(c) == TickRollMins(TickRollSecs(TickIncSecs(c)))

\* mutant: setting the minutes restarts the seconds
ButtonIncMins_ResetSecs(c) == [c EXCEPT !.mins = U8(c.mins + 1), !.secs = 0]

\* button_press, line 212
ButtonIncMins(c) == [c EXCEPT !.mins = U8(c.mins + 1)]

\* mutant: the hour wraps one too late
ButtonRollMins_Mod25(c) ==
    IF c.mins >= 60
    THEN [c EXCEPT !.mins = 0, !.hours = U8(c.hours + 1) % 25]
    ELSE c

\* button_press, lines 213-216
ButtonRollMins(c) ==
    IF c.mins >= 60
    THEN [c EXCEPT !.mins = 0, !.hours = U8(c.hours + 1) % 24]
    ELSE c

\* the whole closure of button_press, lines 211-217
ButtonPressUpdate(c) == ButtonRollMins(ButtonIncMins(c))

(***************************************************************************)
(* u32 values as sets of bit positions.                                    *)
(***************************************************************************)
\* 1 << bit_pos
Shl1(bit_pos) == {bit_pos}

\* a | b
BitOr(a, b) == a \cup b

\* a >> shift
Shr(a, shift) == {b - shift : b \in {x \in a : x >= shift}}

\* (a & 0xFF) as u8
LowByte(a) ==
    LET bit(b) == IF b \in a THEN 2^b ELSE 0
    IN  bit(0) + bit(1) + bit(2) + bit(3) + bit(4) + bit(5) + bit(6) + bit(7)

(***************************************************************************)
(* src/src/main.rs: the font and the body of update_display.              *)
(***************************************************************************)
\* FONT[d + 1][r + 1][c + 1] is the source's FONT[d][r][c]
FONT ==
    <<
       << <<0,1,0>>, <<1,0,1>>, <<1,0,1>>, <<1,0,1>>, <<1,0,1>>, <<1,0,1>>, <<1,0,1>>, <<0,1,0>> >>,
       << <<0,0,1>>, <<0,1,1>>, <<1,0,1>>, <<0,0,1>>, <<0,0,1>>, <<0,0,1>>, <<0,0,1>>, <<0,0,1>> >>,
       << <<0,1,0>>, <<1,0,1>>, <<0,0,1>>, <<0,1,0>>, <<1,0,0>>, <<1,0,0>>, <<1,0,0>>, <<1,1,1>> >>,
       << <<0,1,0>>, <<1,0,1>>, <<0,0,1>>, <<0,1,0>>, <<0,0,1>>, <<0,0,1>>, <<1,0,1>>, <<0,1,0>> >>,
       << <<0,0,1>>, <<0,1,1>>, <<1,0,1>>, <<1,0,1>>, <<1,1,1>>, <<0,0,1>>, <<0,0,1>>, <<0,0,1>> >>,
       << <<1,1,1>>, <<1,0,0>>, <<1,0,0>>, <<1,1,0>>, <<0,0,1>>, <<0,0,1>>, <<1,0,1>>, <<0,1,0>> >>,
       << <<0,1,0>>, <<1,0,0>>, <<1,0,0>>, <<1,1,0>>, <<1,0,1>>, <<1,0,1>>, <<1,0,1>>, <<0,1,0>> >>,
       << <<1,1,1>>, <<0,0,1>>, <<0,0,1>>, <<0,1,0>>, <<0,1,0>>, <<0,1,0>>, <<0,1,0>>, <<0,1,0>> >>,
       << <<0,1,0>>, <<1,0,1>>, <<1,0,1>>, <<0,1,0>>, <<1,0,1>>, <<1,0,1>>, <<1,0,1>>, <<0,1,0>> >>,
       << <<0,1,0>>, <<1,0,1>>, <<1,0,1>>, <<0,1,1>>, <<0,0,1>>, <<0,0,1>>, <<0,0,1>>, <<0,1,0>> >>,
       << <<0,0,0>>, <<0,0,0>>, <<0,1,0>>, <<0,0,0>>, <<0,0,0>>, <<0,1,0>>, <<0,0,0>>, <<0,0,0>> >>
    >>

\* [0u32; 8]
ZeroRows == << {}, {}, {}, {}, {}, {}, {}, {} >>

\* [0u8; 8]
ZeroBuffer == << 0, 0, 0, 0, 0, 0, 0, 0 >>

\* for r in 0..8: the eight values body(r), row r at index r + 1
ForRows(body(_)) ==
    << body(0), body(1), body(2), body(3), body(4), body(5), body(6), body(7) >>

\* update_display, lines 227-233
ud_digits(h, m, s) ==
    << h \div 10, h % 10, 10, m \div 10, m % 10, 10, s \div 10, s % 10 >>

\* update_display, lines 240-248: the loop over c for one glyph row
RECURSIVE ud_cols(_, _, _, _, _)
ud_cols(row, d, r, cursor, c) ==
    IF c = 3 THEN row
    ELSE LET bit_pos == USizeSub(31, cursor + c)
             row1 == IF FONT[d + 1][r + 1][c + 1] # 0 /\ bit_pos < 32
                     THEN BitOr(row, Shl1(bit_pos))
                     ELSE row
         IN  ud_cols(row1, d, r, cursor, c + 1)

\* update_display, lines 239-249: the loops over r and c for the glyph d
ud_glyph(fb, d, cursor) ==
    ForRows(LAMBDA r : ud_cols(fb[r + 1], d, r, cursor, 0))

\* mutant: no gap column after a glyph
ud_advance_NoGap(i, cursor) == cursor + 3

\* update_display, lines 250-253: the cursor after the glyph at index i
ud_advance(i, cursor) == IF i < 7 THEN (cursor + 3) + 1 ELSE cursor + 3

\* update_display, lines 238-254: the loop over the digits from index i
RECURSIVE ud_glyphs(_, _, _, _)
ud_glyphs(fb, digits, i, cursor) ==
    IF i = 8 THEN fb
    ELSE ud_glyphs(ud_glyph(fb, digits[i + 1], cursor), digits, i + 1,
                   ud_advance(i, cursor))

\* update_display, lines 235-254: the framebuffer of a snapshot
ud_fb_rows(snapshot) ==
    ud_glyphs(ZeroRows, ud_digits(snapshot.hours, snapshot.mins, snapshot.secs), 0, 0)

\* mutant: the devices take the bytes of a row in the opposite order
ud_dev_buffer_Reversed(fb, dev_idx) ==
    ForRows(LAMBDA r : LET shift == dev_idx * 8
                       IN  LowByte(Shr(fb[r + 1], shift)))

\* update_display, lines 258-262: the buffer of device dev_idx
ud_dev_buffer(fb, dev_idx) ==
    ForRows(LAMBDA r : LET shift == 24 - (dev_idx * 8)
                       IN  LowByte(Shr(fb[r + 1], shift)))

\* update_display, lines 257-264: the loop over the devices from dev_idx;
\* disp is what the devices hold, wr the devices written so far
RECURSIVE ud_dev_loop(_, _, _, _)
ud_dev_loop(disp, wr, fb, dev_idx) ==
    IF dev_idx = NumDevices THEN [display |-> disp, writes |-> wr]
    ELSE ud_dev_loop([disp EXCEPT ![dev_idx] = ud_dev_buffer(fb, dev_idx)],
                     Append(wr, dev_idx), fb, dev_idx + 1)

(***************************************************************************)
(* src/src/display.rs: prepare_buffer.                                     *)
(***************************************************************************)
\* prepare_buffer, lines 8-14
pb_digits(clk) ==
    << clk.hours \div 10, clk.hours % 10, 10,
       clk.mins \div 10, clk.mins % 10, 10,
       clk.secs \div 10, clk.secs % 10 >>

\* prepare_buffer, lines 21-28
RECURSIVE pb_cols(_, _, _, _, _)
pb_cols(row, d, r, cursor, c) ==
    IF c = 3 THEN row
    ELSE LET bit_pos == USizeSub(31, cursor + c)
         IN  IF FONT[d + 1][r + 1][c + 1] # 0
             THEN IF bit_pos < 32
                  THEN pb_cols(BitOr(row, Shl1(bit_pos)), d, r, cursor, c + 1)
                  ELSE pb_cols(row, d, r, cursor, c + 1)
             ELSE pb_cols(row, d, r, cursor, c + 1)

\* prepare_buffer, lines 19-34
RECURSIVE pb_glyphs(_, _, _, _)
pb_glyphs(fb, digits, i, cursor) ==
    IF i = 8 THEN fb
    ELSE pb_glyphs(
             ForRows(LAMBDA r : pb_cols(fb[r + 1], digits[i + 1], r, cursor, 0)),
             digits, i + 1, IF i < 7 THEN (cursor + 3) + 1 ELSE cursor + 3)

\* mutant: the cursor starts one column to the right
pb_fb_rows_StartAt1(clk) == pb_glyphs(ZeroRows, pb_digits(clk), 0, 1)

\* prepare_buffer, lines 16-34
pb_fb_rows(clk) == pb_glyphs(ZeroRows, pb_digits(clk), 0, 0)

\* mutant: device 0 takes the least significant byte of a row
pb_run_Reversed(clk) ==
    LET fb == pb_fb_rows(clk)
    IN  [fb_rows |-> fb,
         device_buffers |->
            [dev \in 1..NumDevices |->
                ForRows(LAMBDA r : LET shift == (dev - 1) * 8
                                   IN  LowByte(Shr(fb[r + 1], shift)))]]

\* prepare_buffer, lines 16-44: fb_rows at the end of the first loop and the
\* device_buffers built from it; device_buffers[dev_idx + 1] is the source's
\* device_buffers[dev_idx]
pb_run(clk) ==
    LET fb == pb_fb_rows(clk)
    IN  [fb_rows |-> fb,
         device_buffers |->
            [dev \in 1..NumDevices |->
                ForRows(LAMBDA r : LET shift == 24 - ((dev - 1) * 8)
                                   IN  LowByte(Shr(fb[r + 1], shift)))]]

\* prepare_buffer, lines 7-45: the value returned
prepare_buffer(clk) == pb_run(clk).device_buffers

(***************************************************************************)
(* State.                                                                  *)
(***************************************************************************)
VARIABLES
    clock,          \* Shared.clock
    alarm_armed,    \* Local.alarm: scheduled and not yet expired
    timer_irq,      \* TIMER_IRQ_0 pending
    pressed,        \* level of Local.button: TRUE while the button is down
    edge_enabled,   \* EdgeLow interrupt of the button enabled
    gpio_irq,       \* IO_IRQ_BANK0 pending
    led,            \* Local.led
    rq,             \* ready queue of the dispatcher: spawned update_display instances
    run,            \* the handler that executes, "idle" when none does
    pc,             \* its position
    snap,           \* update_display: (h, m, s)
    fb_rows,        \* update_display: fb_rows
    cursor,         \* update_display: cursor
    i,              \* update_display: index of the digit in the loop
    dev_idx,        \* update_display: dev_idx
    display,        \* what each device was last written, Local.display
    device_buffers, \* the value returned by prepare_buffer
    pre,            \* history: the clock on entry to the running lock closure
    ver,            \* history: number of completed clock mutations
    snapVer,        \* history: ver when snap was read
    reqVer,         \* history: ver at the last update_display::spawn()
    reqClock,       \* history: the clock at the last update_display::spawn()
    reqs,           \* history: spawn() calls since update_display last started
    coalesced,      \* history: reqs when the current or last pass started
    writes,         \* history: devices written by the current or last pass
    edgeIncs,       \* history: minutes added by button_press since the last press
    scheduled,      \* history: the interval each task last scheduled a timer with, 0 if none
    boot,           \* history: the clock the handlers started from
    tickIncs,       \* history: number of completed lock closures of timer_tick
    nticks,         \* alarm expiries so far
    npresses,       \* presses so far
    nbounces,       \* bounce edges so far
    nfails          \* device writes that returned an error so far

vars ==
    << clock, alarm_armed, timer_irq, pressed, edge_enabled, gpio_irq, led, rq,
       run, pc, snap, fb_rows, cursor, i, dev_idx, display, device_buffers, pre,
       ver,
       snapVer, reqVer, reqClock, reqs, coalesced, writes, edgeIncs, scheduled,
       boot, tickIncs, nticks, npresses, nbounces, nfails >>

hw == << alarm_armed, timer_irq, pressed, edge_enabled, gpio_irq, led >>

locals == << snap, fb_rows, cursor, i, dev_idx, display, device_buffers >>

hist ==
    << pre, ver, snapVer, reqVer, reqClock, reqs, coalesced, writes, edgeIncs,
       scheduled, boot, tickIncs >>

counts == << nticks, npresses, nbounces, nfails >>

Tasks == {"timer_tick", "button_press", "update_display"}

\* init, lines 102-171: the state the handlers start from, for a clock value c
InitWith(c) ==
    /\ clock = c
    /\ alarm_armed = TRUE
    /\ timer_irq = FALSE
    /\ pressed = FALSE
    /\ edge_enabled = TRUE
    /\ gpio_irq = FALSE
    /\ led = FALSE
    /\ rq = << >>
    /\ snap = NoClock
    /\ fb_rows = ZeroRows
    /\ cursor = 0
    /\ i = 0
    /\ dev_idx = 0
    /\ display = [d \in 0..(NumDevices - 1) |-> ZeroBuffer]
    /\ device_buffers = [d \in 1..NumDevices |-> ZeroBuffer]
    /\ pre = NoClock
    /\ ver = 0
    /\ snapVer = 0
    /\ reqVer = 0
    /\ reqClock = NoClock
    /\ reqs = 0
    /\ coalesced = 0
    /\ writes = << >>
    /\ edgeIncs = 0
    /\ scheduled = [t \in Tasks |-> 0]
    /\ boot = c
    /\ tickIncs = 0
    /\ nticks = 0
    /\ npresses = 0
    /\ nbounces = 0
    /\ nfails = 0

Init ==
    /\ \E c \in StartClocks : InitWith(c)
    /\ run = "idle"
    /\ pc = "idle"

(***************************************************************************)
(* The environment: the alarm and the button.                              *)
(***************************************************************************)
\* the alarm scheduled by init / timer_tick expires
AlarmFire ==
    /\ alarm_armed
    /\ nticks < MaxTicks
    /\ alarm_armed' = FALSE
    /\ timer_irq' = TRUE
    /\ nticks' = nticks + 1
    /\ UNCHANGED << clock, pressed, edge_enabled, gpio_irq, led, rq, run, pc,
                    locals, hist, npresses, nbounces, nfails >>

\* the button goes down: a falling edge. Presses are made by hand, so the
\* handler of an earlier edge has finished by then.
Press ==
    /\ ~pressed
    /\ npresses < MaxPresses
    /\ ~gpio_irq
    /\ run # "button_press"
    /\ pressed' = TRUE
    /\ gpio_irq' = edge_enabled
    /\ edgeIncs' = 0
    /\ npresses' = npresses + 1
    /\ UNCHANGED << clock, alarm_armed, timer_irq, edge_enabled, led, rq, run, pc,
                    locals, pre, ver, snapVer, reqVer, reqClock, reqs, coalesced,
                    writes, scheduled, boot, tickIncs, nticks, nbounces, nfails >>

\* contact bounce while the button is held down: a further falling edge
Bounce ==
    /\ pressed
    /\ nbounces < MaxBounces
    /\ gpio_irq' = (gpio_irq \/ edge_enabled)
    /\ nbounces' = nbounces + 1
    /\ UNCHANGED << clock, alarm_armed, timer_irq, pressed, edge_enabled, led, rq,
                    run, pc, locals, hist, nticks, npresses, nfails >>

\* the button goes up: a rising edge, for which no interrupt is enabled
Release ==
    /\ pressed
    /\ pressed' = FALSE
    /\ UNCHANGED << clock, alarm_armed, timer_irq, edge_enabled, gpio_irq, led, rq,
                    run, pc, locals, hist, counts >>

(***************************************************************************)
(* Dispatch. A pending interrupt is taken when its priority exceeds that   *)
(* of the running handler; among pending interrupts of equal priority the  *)
(* one with the lower interrupt number is taken first: TIMER_IRQ_0, then   *)
(* IO_IRQ_BANK0, then the dispatcher I2C0_IRQ.                             *)
(***************************************************************************)
RunningPriority == Priority(run)

\* mutant: a request beyond the capacity is queued
Spawn_Unbounded(q) == Append(q, "update_display")

\* update_display::spawn().ok(): a request beyond the capacity is dropped
Spawn(q) == IF Len(q) < Capacity THEN Append(q, "update_display") ELSE q

Dispatch_timer_tick ==
    /\ timer_irq
    /\ Priority("timer_tick") > RunningPriority
    /\ run' = "timer_tick"
    /\ pc' = "t_clear"
    /\ UNCHANGED << clock, hw, rq, locals, hist, counts >>

Dispatch_button_press ==
    /\ gpio_irq
    /\ ~timer_irq
    /\ Priority("button_press") > RunningPriority
    /\ run' = "button_press"
    /\ pc' = "b_clear"
    /\ UNCHANGED << clock, hw, rq, locals, hist, counts >>

\* the dispatcher dequeues the instance (its slot is free again) and calls the task
Dispatch_update_display ==
    /\ rq # << >>
    /\ ~timer_irq
    /\ ~gpio_irq
    /\ Priority("update_display") > RunningPriority
    /\ rq' = Tail(rq)
    /\ run' = "update_display"
    /\ pc' = "u_read"
    /\ coalesced' = reqs
    /\ reqs' = 0
    /\ writes' = << >>
    /\ UNCHANGED << clock, hw, locals, pre, ver, snapVer, reqVer, reqClock,
                    edgeIncs, scheduled, boot, tickIncs, counts >>

(***************************************************************************)
(* timer_tick, src/src/main.rs lines 174-197.                              *)
(***************************************************************************)
\* line 177
timer_tick_clear ==
    /\ run = "timer_tick" /\ pc = "t_clear"
    /\ timer_irq' = FALSE
    /\ pc' = "t_schedule"
    /\ UNCHANGED << clock, alarm_armed, pressed, edge_enabled, gpio_irq, led, rq,
                    run, locals, hist, counts >>

\* line 178
timer_tick_schedule ==
    /\ run = "timer_tick" /\ pc = "t_schedule"
    /\ alarm_armed' = TRUE
    /\ scheduled' = [scheduled EXCEPT !["timer_tick"] = TickIntervalUs]
    /\ pc' = "t_led"
    /\ UNCHANGED << clock, timer_irq, pressed, edge_enabled, gpio_irq, led, rq, run,
                    locals, pre, ver, snapVer, reqVer, reqClock, reqs, coalesced,
                    writes, edgeIncs, boot, tickIncs, counts >>

\* line 180
timer_tick_led ==
    /\ run = "timer_tick" /\ pc = "t_led"
    /\ led' = ~led
    /\ pc' = "t_inc"
    /\ UNCHANGED << clock, alarm_armed, timer_irq, pressed, edge_enabled, gpio_irq,
                    rq, run, locals, hist, counts >>

\* lines 183-184: the lock closure is entered
timer_tick_inc ==
    /\ run = "timer_tick" /\ pc = "t_inc"
    /\ pre' = clock
    /\ clock' = TickIncSecs(clock)
    /\ pc' = "t_secs"
    /\ UNCHANGED << hw, rq, run, locals, ver, snapVer, reqVer, reqClock, reqs,
                    coalesced, writes, edgeIncs, scheduled, boot, tickIncs, counts >>

\* lines 185-188
timer_tick_roll_secs ==
    /\ run = "timer_tick" /\ pc = "t_secs"
    /\ clock' = TickRollSecs(clock)
    /\ pc' = "t_mins"
    /\ UNCHANGED << hw, rq, run, locals, hist, counts >>

\* lines 189-193: the lock closure is left
timer_tick_roll_mins ==
    /\ run = "timer_tick" /\ pc = "t_mins"
    /\ clock' = TickRollMins(clock)
    /\ ver' = ver + 1
    /\ tickIncs' = tickIncs + 1
    /\ pc' = "t_spawn"
    /\ UNCHANGED << hw, rq, run, locals, pre, snapVer, reqVer, reqClock, reqs,
                    coalesced, writes, edgeIncs, scheduled, boot, counts >>

\* mutant: timer_tick does not request the refresh
TickSpawn_Missing(q) == q

\* line 196
TickSpawn(q) == Spawn(q)

\* line 196, and the return
timer_tick_spawn ==
    /\ run = "timer_tick" /\ pc = "t_spawn"
    /\ rq' = TickSpawn(rq)
    /\ reqs' = reqs + 1
    /\ reqVer' = ver
    /\ reqClock' = clock
    /\ run' = "idle"
    /\ pc' = "idle"
    /\ UNCHANGED << clock, hw, locals, pre, ver, snapVer, coalesced, writes,
                    edgeIncs, scheduled, boot, tickIncs, counts >>

(***************************************************************************)
(* button_press, src/src/main.rs lines 200-220.                            *)
(***************************************************************************)
\* line 203
button_press_clear ==
    /\ run = "button_press" /\ pc = "b_clear"
    /\ gpio_irq' = FALSE
    /\ pc' = "b_inc"
    /\ UNCHANGED << clock, alarm_armed, timer_irq, pressed, edge_enabled, led, rq,
                    run, locals, hist, counts >>

\* lines 211-212: the lock closure is entered
button_press_inc ==
    /\ run = "button_press" /\ pc = "b_inc"
    /\ pre' = clock
    /\ clock' = ButtonIncMins(clock)
    /\ pc' = "b_mins"
    /\ UNCHANGED << hw, rq, run, locals, ver, snapVer, reqVer, reqClock, reqs,
                    coalesced, writes, edgeIncs, scheduled, boot, tickIncs, counts >>

\* lines 213-217: the lock closure is left
button_press_roll ==
    /\ run = "button_press" /\ pc = "b_mins"
    /\ clock' = ButtonRollMins(clock)
    /\ ver' = ver + 1
    /\ edgeIncs' = edgeIncs + 1
    /\ pc' = "b_spawn"
    /\ UNCHANGED << hw, rq, run, locals, pre, snapVer, reqVer, reqClock, reqs,
                    coalesced, writes, scheduled, boot, tickIncs, counts >>

\* line 219, and the return
button_press_spawn ==
    /\ run = "button_press" /\ pc = "b_spawn"
    /\ rq' = Spawn(rq)
    /\ reqs' = reqs + 1
    /\ reqVer' = ver
    /\ reqClock' = clock
    /\ run' = "idle"
    /\ pc' = "idle"
    /\ UNCHANGED << clock, hw, locals, pre, ver, snapVer, coalesced, writes,
                    edgeIncs, scheduled, boot, tickIncs, counts >>

(***************************************************************************)
(* update_display, src/src/main.rs lines 223-265.                          *)
(***************************************************************************)
\* mutant: the seconds are not read again, the ones of the last pass are used
ReadSnapshot_StaleSecs(c, old) ==
    [hours |-> c.hours, mins |-> c.mins, secs |-> old.secs]

\* line 225: (c.hours, c.mins, c.secs) of the clock c; old is the value
\* the variables held before
ReadSnapshot(c, old) == [hours |-> c.hours, mins |-> c.mins, secs |-> c.secs]

\* mutant: the lock closure waits until no timer interrupt is pending
update_display_read_Blocking ==
    /\ run = "update_display" /\ pc = "u_read"
    /\ ~timer_irq
    /\ snap' = ReadSnapshot(clock, snap)
    /\ snapVer' = ver
    /\ pc' = "u_init"
    /\ UNCHANGED << clock, hw, rq, run, fb_rows, cursor, i, dev_idx, display,
                    device_buffers, pre, ver, reqVer, reqClock, reqs, coalesced,
                    writes, edgeIncs, scheduled, boot, tickIncs, counts >>

\* line 225
update_display_read ==
    /\ run = "update_display" /\ pc = "u_read"
    /\ snap' = ReadSnapshot(clock, snap)
    /\ snapVer' = ver
    /\ pc' = "u_init"
    /\ UNCHANGED << clock, hw, rq, run, fb_rows, cursor, i, dev_idx, display,
                    device_buffers, pre, ver, reqVer, reqClock, reqs, coalesced,
                    writes, edgeIncs, scheduled, boot, tickIncs, counts >>

\* lines 227-236
update_display_init ==
    /\ run = "update_display" /\ pc = "u_init"
    /\ fb_rows' = ZeroRows
    /\ cursor' = 0
    /\ i' = 0
    /\ pc' = "u_glyph"
    /\ UNCHANGED << clock, hw, rq, run, snap, dev_idx, display, device_buffers,
                    hist, counts >>

\* lines 238-254: one iteration of the loop over the digits
update_display_glyph ==
    /\ run = "update_display" /\ pc = "u_glyph"
    /\ i < 8
    /\ fb_rows' = ud_glyph(fb_rows, ud_digits(snap.hours, snap.mins, snap.secs)[i + 1],
                           cursor)
    /\ cursor' = ud_advance(i, cursor)
    /\ i' = i + 1
    /\ IF i + 1 < 8
       THEN UNCHANGED << pc, dev_idx >>
       ELSE pc' = "u_write" /\ dev_idx' = 0
    /\ UNCHANGED << clock, hw, rq, run, snap, display, device_buffers, hist, counts >>

\* lines 257-264: one iteration of the loop over the devices
update_display_write ==
    /\ run = "update_display" /\ pc = "u_write"
    /\ dev_idx < NumDevices
    /\ display' = [display EXCEPT ![dev_idx] = ud_dev_buffer(fb_rows, dev_idx)]
    /\ writes' = Append(writes, dev_idx)
    /\ dev_idx' = dev_idx + 1
    /\ pc' = IF dev_idx + 1 < NumDevices THEN "u_write" ELSE "u_return"
    /\ UNCHANGED << clock, hw, rq, run, snap, fb_rows, cursor, i, device_buffers,
                    pre, ver, snapVer, reqVer, reqClock, reqs, coalesced, edgeIncs,
                    scheduled, boot, tickIncs, counts >>

\* line 265: the task returns
update_display_return ==
    /\ run = "update_display" /\ pc = "u_return"
    /\ run' = "idle"
    /\ pc' = "idle"
    /\ UNCHANGED << clock, hw, rq, locals, hist, counts >>

\* mutant: the error of a write is dropped and the loop goes on
UnwrapErr_Ignored(dev) ==
    [pc |-> IF dev + 1 < NumDevices THEN "u_write" ELSE "u_return",
     dev_idx |-> dev + 1]

\* line 263, unwrap() of an Err: the panic handler of panic_halt (line 4) is
\* entered, an endless loop inside the handler that runs update_display
UnwrapErr(dev) == [pc |-> "panic", dev_idx |-> dev]

\* line 263: write_raw returns an error. The device has taken the buffer or
\* has kept what it showed.
update_display_write_fail ==
    /\ run = "update_display" /\ pc = "u_write"
    /\ dev_idx < NumDevices
    /\ nfails < MaxFails
    /\ nfails' = nfails + 1
    /\ \E b \in {display[dev_idx], ud_dev_buffer(fb_rows, dev_idx)} :
            display' = [display EXCEPT ![dev_idx] = b]
    /\ pc' = UnwrapErr(dev_idx).pc
    /\ dev_idx' = UnwrapErr(dev_idx).dev_idx
    /\ UNCHANGED << clock, hw, rq, run, snap, fb_rows, cursor, i, device_buffers,
                    hist, nticks, npresses, nbounces >>

(***************************************************************************)
(* The running program.                                                    *)
(***************************************************************************)
Environment == AlarmFire \/ Press \/ Bounce \/ Release

Dispatch == Dispatch_timer_tick \/ Dispatch_button_press \/ Dispatch_update_display

Step ==
    \/ timer_tick_clear \/ timer_tick_schedule \/ timer_tick_led
    \/ timer_tick_inc \/ timer_tick_roll_secs \/ timer_tick_roll_mins
    \/ timer_tick_spawn
    \/ button_press_clear \/ button_press_inc \/ button_press_roll
    \/ button_press_spawn
    \/ update_display_read \/ update_display_init \/ update_display_glyph
    \/ update_display_write \/ update_display_return

\* what the core does: it takes a pending interrupt or executes the next
\* statement of the running handler
Cpu == Dispatch \/ Step

Next == Environment \/ Cpu

Spec == Init /\ [][Next]_vars

\* The core always executes: a pending interrupt that may be taken is taken,
\* and a handler that has started runs on. Nothing is assumed of the alarm
\* and the button.
FairSpec == Spec /\ WF_vars(Cpu)

\* the running program with device writes that may return an error
FailNext == Next \/ update_display_write_fail

FailSpec == Init /\ [][FailNext]_vars

(***************************************************************************)
(* The functions applied to every clock value in range.                    *)
(***************************************************************************)
InitFn ==
    /\ \E c \in AllClocks : InitWith(c)
    /\ run = "fn"
    /\ pc = "fn_ready"

FnFrame ==
    UNCHANGED << hw, rq, run, cursor, i, dev_idx, snapVer, reqVer, reqClock, reqs,
                 coalesced, edgeIncs, scheduled, boot, counts >>

\* what a function of the clock leaves alone
FnClockFrame ==
    FnFrame /\ UNCHANGED << snap, fb_rows, display, device_buffers, writes >>

\* ClockState::tick
FnTick ==
    /\ pc = "fn_ready"
    /\ pre' = clock
    /\ clock' = tick(clock)
    /\ ver' = ver + 1
    /\ tickIncs' = tickIncs + 1
    /\ pc' = "fn_tick"
    /\ FnClockFrame

\* the lock closure of timer_tick
FnTimerTick ==
    /\ pc = "fn_ready"
    /\ pre' = clock
    /\ clock' = TimerTickUpdate(clock)
    /\ ver' = ver + 1
    /\ tickIncs' = tickIncs + 1
    /\ pc' = "fn_timer_tick"
    /\ FnClockFrame

\* ClockState::add_minute
FnAddMinute ==
    /\ pc = "fn_ready"
    /\ pre' = clock
    /\ clock' = add_minute(clock)
    /\ ver' = ver + 1
    /\ pc' = "fn_add_minute"
    /\ FnClockFrame /\ UNCHANGED tickIncs

\* the lock closure of button_press
FnButtonPress ==
    /\ pc = "fn_ready"
    /\ pre' = clock
    /\ clock' = ButtonPressUpdate(clock)
    /\ ver' = ver + 1
    /\ pc' = "fn_button_press"
    /\ FnClockFrame /\ UNCHANGED tickIncs

\* ClockState::add_minute on the result of ClockState::tick
FnAddMinuteAfterTick ==
    /\ pc = "fn_tick"
    /\ pre' = clock
    /\ clock' = add_minute(clock)
    /\ ver' = ver + 1
    /\ pc' = "fn_tick_add_minute"
    /\ FnClockFrame /\ UNCHANGED tickIncs

\* ClockState::tick on the result of ClockState::add_minute
FnTickAfterAddMinute ==
    /\ pc = "fn_add_minute"
    /\ pre' = clock
    /\ clock' = tick(clock)
    /\ ver' = ver + 1
    /\ tickIncs' = tickIncs + 1
    /\ pc' = "fn_add_minute_tick"
    /\ FnClockFrame

\* the lock closure of button_press on the result of that of timer_tick
FnButtonPressAfterTimerTick ==
    /\ pc = "fn_timer_tick"
    /\ pre' = clock
    /\ clock' = ButtonPressUpdate(clock)
    /\ ver' = ver + 1
    /\ pc' = "fn_timer_tick_button_press"
    /\ FnClockFrame /\ UNCHANGED tickIncs

\* the lock closure of timer_tick on the result of that of button_press
FnTimerTickAfterButtonPress ==
    /\ pc = "fn_button_press"
    /\ pre' = clock
    /\ clock' = TimerTickUpdate(clock)
    /\ ver' = ver + 1
    /\ tickIncs' = tickIncs + 1
    /\ pc' = "fn_button_press_timer_tick"
    /\ FnClockFrame

NextClockFn ==
    \/ FnTick \/ FnTimerTick \/ FnAddMinute \/ FnButtonPress
    \/ FnAddMinuteAfterTick \/ FnTickAfterAddMinute
    \/ FnButtonPressAfterTimerTick \/ FnTimerTickAfterButtonPress

ClockFnSpec == InitFn /\ [][NextClockFn]_vars

\* prepare_buffer
FnPrepareBuffer ==
    /\ pc = "fn_ready"
    /\ LET res == pb_run(clock)
       IN  /\ fb_rows' = res.fb_rows
           /\ device_buffers' = res.device_buffers
    /\ pc' = "fn_prepare_buffer"
    /\ FnFrame /\ UNCHANGED << clock, pre, ver, tickIncs, snap, display, writes >>

\* the body of update_display run on the clock without interruption
FnUpdateDisplay ==
    /\ pc = "fn_ready"
    /\ snap' = ReadSnapshot(clock, snap)
    /\ fb_rows' = ud_fb_rows(snap')
    /\ LET pass == ud_dev_loop(display, << >>, fb_rows', 0)
       IN  /\ display' = pass.display
           /\ writes' = pass.writes
    /\ pc' = "fn_update_display"
    /\ FnFrame /\ UNCHANGED << clock, pre, ver, tickIncs, device_buffers >>

InitComposeFn ==
    /\ \E c \in ComposeClocks : InitWith(c)
    /\ run = "fn"
    /\ pc = "fn_ready"

NextComposeFn == FnPrepareBuffer \/ FnUpdateDisplay

ComposeFnSpec == InitComposeFn /\ [][NextComposeFn]_vars

\* the functions of the clock and the two compositions, from the same clocks
NextAllFn == NextClockFn \/ NextComposeFn

AllFnSpec == InitComposeFn /\ [][NextAllFn]_vars

(***************************************************************************)
(* Properties.                                                             *)
(***************************************************************************)
\* positions inside a lock closure, after its first statement
InCritical == pc \in {"t_secs", "t_mins", "b_mins"}

\* the clock as the last complete tick or minute increment left it
Committed == IF InCritical THEN pre ELSE clock

\* the button is down and its press has been handled
Held == pressed /\ edgeIncs >= 1

\* C1: outside the lock closures of timer_tick and button_press the clock is
\* in range (hours 0..23, mins 0..59, secs 0..59), and so is every snapshot
\* update_display has read: no intermediate value such as secs = 60 or
\* mins = 60 is observable.
C1_ClockInRange ==
    /\ ~InCritical => InRange(clock)
    /\ snap # NoClock => InRange(snap)

\* a snapshot read after a tick that rolled seconds and minutes over
C1_Witness ==
    /\ run = "update_display" /\ pc = "u_init"
    /\ pre.secs = 59 /\ pre.mins = 59
    /\ snap.secs = 0 /\ snap.mins = 0

\* C2: tick at secs = 59 sets secs to 0 and changes mins and hours as one
\* add_minute does; at secs < 59 it adds one to secs and changes nothing
\* else. Both for ClockState::tick and for the lock closure of timer_tick.
C2_TickRollover ==
    pc \in {"fn_tick", "fn_timer_tick"} =>
        IF pre.secs = 59
        THEN clock = [add_minute(pre) EXCEPT !.secs = 0]
        ELSE clock = [pre EXCEPT !.secs = pre.secs + 1]

\* the lock closure of timer_tick has taken 23:59:59 to 00:00:00
C2_Witness ==
    /\ pc = "fn_timer_tick"
    /\ pre = [hours |-> 23, mins |-> 59, secs |-> 59]
    /\ clock = [hours |-> 0, mins |-> 0, secs |-> 0]

\* C3: add_minute at mins = 59 sets mins to 0 and hours to (hours + 1) mod 24;
\* at mins < 59 it adds one to mins and leaves hours. Both for
\* ClockState::add_minute and for the lock closure of button_press. The
\* seconds are left in either case.
C3_AddMinuteRollover ==
    pc \in {"fn_add_minute", "fn_button_press"} =>
        IF pre.mins = 59
        THEN clock = [pre EXCEPT !.mins = 0, !.hours = (pre.hours + 1) % 24]
        ELSE clock = [pre EXCEPT !.mins = pre.mins + 1]

\* the lock closure of button_press has taken 23:59 to 00:00
C3_Witness ==
    /\ pc = "fn_button_press"
    /\ pre.hours = 23 /\ pre.mins = 59
    /\ clock.hours = 0 /\ clock.mins = 0

\* C4: at most one update_display instance is pending; one or more requests
\* issued before the task runs leave exactly one instance pending; the pass
\* that results renders the clock as it was at the last of those requests and
\* writes each of the 4 devices once, in order.
C4_AtMostOnePending ==
    /\ Len(rq) <= 1
    /\ (reqs >= 1) <=> (Len(rq) = 1)
    /\ (run = "update_display" /\ pc # "u_read") => snap = reqClock
    /\ (run = "update_display" /\ pc = "u_write") =>
            writes = [k \in 1..dev_idx |-> k - 1]
    /\ (run # "update_display" /\ snap # NoClock) => writes = << 0, 1, 2, 3 >>

\* a pass that two or more requests were coalesced into has completed
C4_Witness ==
    /\ run = "idle"
    /\ coalesced >= 2
    /\ writes = << 0, 1, 2, 3 >>
    /\ snap = reqClock

\* C5: whenever a completed mutation of the clock has not yet been followed
\* by a snapshot (snapVer < ver), a pass later reads its snapshot after it
\* (snapVer = ver), also when the mutation's own request was dropped; and the
\* snapshot of a pass is never older than the mutation that requested it.
C5_NoMissedUpdate ==
    /\ (snapVer < ver) ~> (snapVer = ver)
    /\ []((run = "update_display" /\ pc # "u_read") => snapVer >= reqVer)

\* a pass has read its snapshot after a mutation whose request was dropped
C5_Witness ==
    /\ run = "update_display" /\ pc = "u_init"
    /\ coalesced >= 2
    /\ ver >= 2
    /\ snapVer = ver

\* C6: the snapshot of a pass is the clock as one complete tick or minute
\* increment left it, all three fields from the same instant; when the pass
\* has written the four devices each holds the buffer prepare_buffer gives
\* for that one snapshot, whatever interrupts arrived during the pass.
C6_ConsistentSnapshot ==
    /\ (run = "update_display" /\ pc # "u_read") =>
            /\ snap = Committed
            /\ InRange(snap)
    /\ (run = "update_display" /\ pc = "u_return") =>
            \A d \in 0..(NumDevices - 1) : display[d] = prepare_buffer(snap)[d + 1]

\* a pass has written the four devices while a tick and a button edge arrived
C6_Witness ==
    /\ run = "update_display" /\ pc = "u_return"
    /\ writes = << 0, 1, 2, 3 >>
    /\ timer_irq /\ gpio_irq
    /\ ver >= 1
    /\ snap = clock

\* C7 (as claimed): once the press is handled the edge interrupt is disabled
\* for as long as the button is held, and one hold adds one minute only.
C7_ButtonRoundTrip ==
    /\ Held => ~edge_enabled
    /\ edgeIncs <= 1

\* C8 (as claimed): while the button stays pressed the minutes keep
\* advancing beyond the increment of the press itself.
C8_AutoRepeat == Held ~> (~pressed \/ edgeIncs >= 2)

\* C9 (as claimed): on entry to Held the button task has armed the repeat
\* timer with 500000 microseconds.
C9_RepeatInterval == Held => scheduled["button_press"] = 500000

\* C10: the framebuffer occupies columns 0..30 only: bit 0 (column 31) of
\* every row is clear, and so is bit 0 of every byte of device 3. Both for
\* prepare_buffer and for the body of update_display.
C10_Column31Blank ==
    /\ pc \in {"fn_prepare_buffer", "fn_update_display"} =>
            \A r \in 1..8 : fb_rows[r] \subseteq 1..31
    /\ pc = "fn_prepare_buffer" =>
            \A r \in 1..8 : device_buffers[NumDevices][r] % 2 = 0
    /\ pc = "fn_update_display" =>
            \A r \in 1..8 : display[NumDevices - 1][r] % 2 = 0

\* prepare_buffer has run on 12:34:56 and column 30 is lit, in device 3 too
C10_Witness ==
    /\ pc = "fn_prepare_buffer"
    /\ clock = ResetClock
    /\ \E r \in 1..8 : 1 \in fb_rows[r] /\ (device_buffers[NumDevices][r] \div 2) % 2 = 1

\* the byte of the eight columns 8 * d .. 8 * d + 7 of a row, the leftmost of
\* them in the most significant bit; column col is bit 31 - col of the row
ColumnsByte(row, d) ==
    LET px(k) == IF (31 - ((8 * d) + k)) \in row THEN 2^(7 - k) ELSE 0
    IN  px(0) + px(1) + px(2) + px(3) + px(4) + px(5) + px(6) + px(7)

\* C11: the byte of row r given to device d is (row[r] >> (24 - 8 * d)) & 0xFF,
\* that is the columns 8 * d .. 8 * d + 7 of the row: device 0 holds the
\* leftmost eight columns 0..7 and device 3 the columns 24..31. A pass
\* writes the devices 0, 1, 2, 3 in this order, once each. Both for
\* prepare_buffer and for the body of update_display.
C11_Slicing ==
    /\ pc = "fn_prepare_buffer" =>
            \A d \in 0..(NumDevices - 1) : \A r \in 1..8 :
                device_buffers[d + 1][r] = ColumnsByte(fb_rows[r], d)
    /\ pc = "fn_update_display" =>
            /\ \A d \in 0..(NumDevices - 1) : \A r \in 1..8 :
                    display[d][r] = ColumnsByte(fb_rows[r], d)
            /\ writes = << 0, 1, 2, 3 >>

\* the body of update_display has run on 12:34:56: row 0 shows the tops of
\* 1 and 2 in device 0 (columns 2 and 5) and the tops of 5 and 6 in device 3
\* (columns 24, 25, 26 and 29)
C11_Witness ==
    /\ pc = "fn_update_display"
    /\ clock = ResetClock
    /\ writes = << 0, 1, 2, 3 >>
    /\ display[0][1] = 36
    /\ display[3][1] = 228

\* the framebuffer columns lit in a row: column col is bit 31 - col
RowColumns(row) == {31 - b : b \in row}

\* the framebuffer columns a byte lights when its device shows the eight
\* columns from column first on, the most significant bit leftmost
ByteColumns(byte, first) ==
    {first + k : k \in {j \in 0..7 : (byte \div 2^(7 - j)) % 2 = 1}}

\* C12 (as stated in the data model): with column 0 the most significant bit
\* of a row, the buffer of device d holds the framebuffer columns
\* 8 * (3 - d) .. 8 * (3 - d) + 7, so device 0 the columns 24..31.
C12_OwnershipAsStated ==
    pc = "fn_prepare_buffer" =>
        \A d \in 0..(NumDevices - 1) : \A r \in 1..8 :
            ByteColumns(device_buffers[d + 1][r], 8 * (3 - d))
                = RowColumns(fb_rows[r]) \cap ((8 * (3 - d))..((8 * (3 - d)) + 7))

\* C12 (amended): with column 0 the most significant bit of a row, the buffer
\* of device d holds exactly the framebuffer columns 8 * d .. 8 * d + 7, that
\* is the bits 8 * (3 - d) .. 8 * (3 - d) + 7 of the row: device 0 owns the
\* columns 0..7 and device 3 the columns 24..31, and every lit column is in
\* the buffer of exactly that one device.
C12_ColumnOwnership ==
    pc = "fn_prepare_buffer" =>
        \A r \in 1..8 :
            /\ \A d \in 0..(NumDevices - 1) :
                    /\ ByteColumns(device_buffers[d + 1][r], 8 * d)
                            = RowColumns(fb_rows[r]) \cap ((8 * d)..((8 * d) + 7))
                    /\ {31 - col : col \in ByteColumns(device_buffers[d + 1][r], 8 * d)}
                            = fb_rows[r] \cap ((8 * (3 - d))..((8 * (3 - d)) + 7))
            /\ UNION {ByteColumns(device_buffers[d + 1][r], 8 * d) :
                            d \in 0..(NumDevices - 1)} = RowColumns(fb_rows[r])

\* prepare_buffer has run on 12:34:56: in row 0 the columns 2 and 5 are lit
\* and in the buffer of device 0, the column 29 is lit and in that of device 3
C12_Witness ==
    /\ pc = "fn_prepare_buffer"
    /\ clock = ResetClock
    /\ {2, 5} \subseteq RowColumns(fb_rows[1])
    /\ ByteColumns(device_buffers[1][1], 0) = {2, 5}
    /\ 29 \in ByteColumns(device_buffers[4][1], 24)

C14_DisplayPreempted ==
    [][ /\ (run # "update_display" /\ run' = "update_display") =>
                (run = "idle" /\ ~timer_irq /\ ~gpio_irq)
        /\ (run = "update_display" /\ (timer_irq \/ gpio_irq)) =>
                \/ run' \in {"timer_tick", "button_press"}
                \/ (run' = run /\ pc' = pc /\ locals' = locals)
      ]_vars

\* timer_tick executes at one of the positions S
InTick(S) == run = "timer_tick" /\ pc \in S

\* the alarm expiries whose handler has started
TicksStarted ==
    IF InTick({"t_clear"}) \/ ~timer_irq THEN nticks ELSE nticks - 1

RefGlyphs(c) ==
    << c.hours \div 10, c.hours % 10, 10, c.mins \div 10, c.mins % 10, 10,
       c.secs \div 10, c.secs % 10 >>

\* the columns of row r (1..8) lit in the reference layout of the glyph
\* sequence g: glyph position p (0..7) has its three columns at 4 * p
RefColumns(g, r) ==
    UNION { {(4 * p) + k : k \in {j \in 0..2 : FONT[g[p + 1] + 1][r][j + 1] # 0}}
            : p \in 0..7 }

\* C16: for every clock in range the framebuffer is the reference layout: the
\* pixel (r, col) is set exactly if col = 4 * p + k for a glyph position p
\* and a font column k with FONT[g[p]][r][k] # 0; the gap columns 3, 7, ...,
\* 27 are blank; prepare_buffer and the body of update_display give the same
\* four device buffers, which depend on the clock only; and 12:34:56 gives
\* the glyph sequence 1, 2, 10, 3, 4, 10, 5, 6.
C16_ComposeLayout ==
    /\ pc \in {"fn_prepare_buffer", "fn_update_display"} =>
            LET g == RefGlyphs(clock)
            IN  \A r \in 1..8 :
                    LET cols == RowColumns(fb_rows[r])
                    IN  /\ cols = RefColumns(g, r)
                        /\ cols \cap {3, 7, 11, 15, 19, 23, 27} = {}
    /\ pc = "fn_update_display" =>
            \A d \in 0..(NumDevices - 1) : display[d] = prepare_buffer(clock)[d + 1]
    /\ pc = "fn_prepare_buffer" =>
            \A d \in 0..(NumDevices - 1) :
                device_buffers[d + 1] = ud_dev_buffer(ud_fb_rows(clock), d)
    /\ clock = ResetClock =>
            /\ pb_digits(clock) = << 1, 2, 10, 3, 4, 10, 5, 6 >>
            /\ ud_digits(clock.hours, clock.mins, clock.secs)
                    = << 1, 2, 10, 3, 4, 10, 5, 6 >>

\* the body of update_display has run on 12:34:56: in row 0 the top of the 3
\* is at column 13, in the buffer of device 1
C16_Witness ==
    /\ pc = "fn_update_display"
    /\ snap = ResetClock
    /\ RowColumns(fb_rows[1]) = {2, 5, 13, 18, 24, 25, 26, 29}
    /\ display[1][1] = 4

\* C17: the clock changes only inside the lock closures of timer_tick and
\* button_press, whose whole effect is one tick and one add_minute: no step
\* of update_display, of the dispatcher or of the environment changes it, no
\* step of button_press changes the seconds, and the clock is the same from
\* the end of one closure to the start of the next.
C17_ClockFrame ==
    [][ /\ clock' # clock =>
                /\ \/ InTick({"t_inc", "t_secs", "t_mins"})
                   \/ (run = "button_press" /\ pc \in {"b_inc", "b_mins"})
                /\ run' = run /\ pc' # pc
        /\ run \in {"update_display", "idle"} => clock' = clock
        /\ run = "button_press" => clock'.secs = clock.secs
        /\ pc' = "t_spawn" => clock' = tick(pre')
        /\ pc' = "b_spawn" => clock' = add_minute(pre')
        /\ pc' \in {"t_secs", "b_mins"} /\ pc' # pc => pre' = clock
      ]_vars

\* button_press has added a minute after a tick and a pass of update_display:
\* the seconds are those the tick left
C17_Witness ==
    /\ run = "button_press" /\ pc = "b_spawn"
    /\ tickIncs = 1
    /\ snap = pre
    /\ clock.secs = pre.secs
    /\ clock.mins # pre.mins

\* the time of day in seconds
TimeOfDay(c) == (((c.hours * 60) + c.mins) * 60) + c.secs

\* C18: tick and add_minute commute: the clock after one of each is the same
\* in either order, for ClockState::tick / ClockState::add_minute and for the
\* lock closures of timer_tick / button_press. After any completed ticks and
\* minute increments the clock is in range and its time of day is the start
\* value plus 1 for each tick and 60 for each minute increment, modulo
\* 86400: it depends on the numbers of each only.
C18_Commute ==
    /\ ~InCritical =>
            /\ InRange(clock)
            /\ TimeOfDay(clock)
                    = (TimeOfDay(boot) + tickIncs + (60 * (ver - tickIncs))) % 86400
    /\ pc = "fn_tick_add_minute" => clock = tick(add_minute(boot))
    /\ pc = "fn_add_minute_tick" => clock = add_minute(tick(boot))
    /\ pc = "fn_timer_tick_button_press" =>
            clock = TimerTickUpdate(ButtonPressUpdate(boot))
    /\ pc = "fn_button_press_timer_tick" =>
            clock = ButtonPressUpdate(TimerTickUpdate(boot))

\* tick after add_minute has taken 23:59:59 to 00:01:00
C18_Witness ==
    /\ pc = "fn_add_minute_tick"
    /\ boot = [hours |-> 23, mins |-> 59, secs |-> 59]
    /\ clock = [hours |-> 0, mins |-> 1, secs |-> 0]
    /\ tickIncs = 1 /\ ver = 2

\* C19: once a device write of a pass has returned an error the program is
\* in the panic handler for ever: the devices before the failing one have
\* been written by that pass and the ones after it are not; the clock, the
\* devices, the led and the request queue never change again, so no tick,
\* minute increment or refresh takes effect, whatever interrupts arrive.
C19_WriteFailureHalts ==
    /\ []( nfails >= 1 =>
                /\ run = "update_display" /\ pc = "panic"
                /\ dev_idx < NumDevices
                /\ writes = [k \in 1..dev_idx |-> k - 1] )
    /\ [][ pc = "panic" =>
                /\ pc' = "panic" /\ run' = run
                /\ clock' = clock
                /\ locals' = locals
                /\ << ver, tickIncs, snapVer, reqs, reqVer, writes >>'
                        = << ver, tickIncs, snapVer, reqs, reqVer, writes >>
                /\ led' = led
                /\ rq' = rq
      ]_vars

\* the write of device 2 has failed after a minute increment; the alarm has
\* expired and the button bounced since, and both interrupts stay pending
C19_Witness ==
    /\ run = "update_display" /\ pc = "panic"
    /\ nfails = 1
    /\ dev_idx = 2
    /\ writes = << 0, 1 >>
    /\ timer_irq /\ gpio_irq
    /\ snap = clock

\* add_minute and tick in unbounded integer arithmetic
AddMinuteUnbounded(c) ==
    IF c.mins + 1 >= 60
    THEN [c EXCEPT !.mins = 0, !.hours = (c.hours + 1) % 24]
    ELSE [c EXCEPT !.mins = c.mins + 1]

TickUnbounded(c) ==
    IF c.secs + 1 >= 60
    THEN AddMinuteUnbounded([c EXCEPT !.secs = 0])
    ELSE [c EXCEPT !.secs = c.secs + 1]

\* the cursor at the glyph of index i
RECURSIVE CursorAt(_)
CursorAt(k) == IF k = 0 THEN 0 ELSE ud_advance(k - 1, CursorAt(k - 1))

\* the number of font pixels in row r (1..8) of the glyph sequence g
FontPixels(g, r) ==
    Cardinality({pk \in (0..7) \X (0..2) : FONT[g[pk[1] + 1] + 1][r][pk[2] + 1] # 0})

\* C20: nothing wraps. From a clock in range the increments of tick and
\* add_minute stay at or below 60 (the hour at or below 24), far from 256, so
\* the u8 results are those of unbounded arithmetic and again in range. In
\* the composition cursor + c is at most 30 at every glyph column, so
\* bit_pos = 31 - (cursor + c) is in 1..31 without underflow, and the test
\* bit_pos < 32 drops no pixel: each row has as many bits set as the glyphs
\* have font pixels in it.
C20_NoWrap ==
    /\ ~InCritical => InRange(clock)
    /\ pc \in {"fn_tick", "fn_timer_tick", "fn_add_minute_tick",
               "fn_button_press_timer_tick"} =>
            /\ pre.secs + 1 <= 60 /\ pre.mins + 1 <= 60 /\ pre.hours + 1 <= 24
            /\ clock = TickUnbounded(pre)
    /\ pc \in {"fn_add_minute", "fn_button_press", "fn_tick_add_minute",
               "fn_timer_tick_button_press"} =>
            /\ pre.mins + 1 <= 60 /\ pre.hours + 1 <= 24
            /\ clock = AddMinuteUnbounded(pre)
    /\ InTick({"t_secs"}) => (clock.secs = pre.secs + 1 /\ clock.secs <= 60)
    /\ InTick({"t_mins"}) => (clock.mins \in {pre.mins, pre.mins + 1} /\ clock.mins <= 60)
    /\ (run = "button_press" /\ pc = "b_mins") =>
            (clock.mins = pre.mins + 1 /\ clock.mins <= 60)
    /\ (InTick({"t_spawn"}) \/ (run = "button_press" /\ pc = "b_spawn")) =>
            clock.hours \in {pre.hours, pre.hours + 1, 0}
    /\ (run = "update_display" /\ pc = "u_glyph") =>
            /\ cursor = CursorAt(i)
            /\ \A c \in 0..2 :
                    /\ cursor + c <= 30
                    /\ USizeSub(31, cursor + c) \in 1..31
    /\ pc \in {"fn_prepare_buffer", "fn_update_display"} =>
            /\ \A k \in 0..7 : \A c \in 0..2 :
                    LET col == CursorAt(k) + c
                    IN  /\ col <= 30
                        /\ USizeSub(31, col) = 31 - col
                        /\ USizeSub(31, col) \in 1..31
            /\ LET g == RefGlyphs(clock)
               IN  \A r \in 1..8 :
                       /\ fb_rows[r] \subseteq 1..31
                       /\ Cardinality(fb_rows[r]) = FontPixels(g, r)

\* prepare_buffer has run on 23:59:59: the last glyph has a pixel in its
\* third column, at cursor + c = 30, bit 1 of row 1
C20_Witness ==
    /\ pc = "fn_prepare_buffer"
    /\ clock = [hours |-> 23, mins |-> 59, secs |-> 59]
    /\ 1 \in fb_rows[2]
    /\ Cardinality(fb_rows[2]) = FontPixels(RefGlyphs(clock), 2)

=============================================================================
